---- MODULE Spec2Model ----
(***************************************************************************)
(* A model of powerpoint_video_compatibility_fixer.py (the batch converter *)
(* main / run_batch / convert_file) and of the compliance verifier         *)
(* tests/test_powerpoint_compatibility.py (main / check_file).             *)
(*                                                                         *)
(* A path is <<dir, base, t, x, ext>> and stands for the file              *)
(*     dir / (base ++ "_tmp" * t ++ (x ? ".x" : "") ++ "." ++ ext)         *)
(* The directories are "in" (input_dir), "sub" (the subdirectory "_sub" of *)
(* input_dir) and "out" (a directory outside input_dir).                   *)
(* A file's content is <<kind, path>>: "orig" (present before the run),    *)
(* "part" (a partially written encoder output of source path) or "enc"     *)
(* (a complete encoder output of source path).                             *)
(***************************************************************************)
EXTENDS Integers, Sequences, FiniteSets, TLC

VARIABLES
    overwrite, recursive, outdir,   \* Settings (parse_args)
    fs,                             \* the filesystem: existing path -> content
    inputDirExists,                 \* whether input_dir exists
    pc,                             \* the position of main
    files, i,                       \* run_batch: the discovered list, the loop index
    success, fail, skip,            \* run_batch: the counters
    outcome,                        \* convert_file: the returned message's kind
    code,                           \* run_batch's return value
    exitCode,                       \* the process exit code (-1: still running)
    hist,                           \* history: what happened so far (see Init)
    vpc, vLeft, vAllOk, vRet, vProbe, vHist   \* the verifier (see VInit)

vars == <<overwrite, recursive, outdir, fs, inputDirExists, pc, files, i,
          success, fail, skip, outcome, code, exitCode, hist,
          vpc, vLeft, vAllOk, vRet, vProbe, vHist>>

batchVars == <<overwrite, recursive, outdir, fs, inputDirExists, pc, files, i,
               success, fail, skip, outcome, code, exitCode, hist>>

verifyVars == <<vpc, vLeft, vAllOk, vRet, vProbe, vHist>>

----------------------------------------------------------------------------
(* Bounds of the model *)

MaxFiles == 3      \* files present before the run
MaxScan == 2       \* .mp4 files the verifier finds

----------------------------------------------------------------------------
(* Paths and the filesystem *)

Dir(p) == p[1]

\* The files that may be present before the run.
InitPaths ==
    { <<"in", "a", 0, FALSE, "mov">>,   \* in/a.mov
      <<"in", "a", 0, FALSE, "mp4">>,   \* in/a.mp4
      <<"in", "a", 0, TRUE, "mov">>,    \* in/a.x.mov
      <<"in", "a", 1, FALSE, "mov">>,   \* in/a_tmp.mov
      <<"in", "a", 1, FALSE, "mp4">>,   \* in/a_tmp.mp4
      <<"in", "b", 0, FALSE, "MOV">>,   \* in/b.MOV
      <<"in", "n", 0, FALSE, "txt">>,   \* in/n.txt
      <<"sub", "a", 0, FALSE, "mov">>,  \* in/_sub/a.mov
      <<"sub", "a", 1, FALSE, "mov">>,  \* in/_sub/a_tmp.mov
      <<"out", "a", 0, FALSE, "mp4">>,  \* out/a.mp4
      <<"out", "a", 1, FALSE, "mp4">> } \* out/a_tmp.mp4

Exists(f, p) == p \in DOMAIN f

Write(f, p, c) == [q \in (DOMAIN f) \cup {p} |-> IF q = p THEN c ELSE f[q]]

Unlink(f, p) == [q \in (DOMAIN f) \ {p} |-> f[q]]

\* Path.rename(tmp, dst): dst gets tmp's content, tmp is gone.
Rename(f, from, to) == Unlink(Write(f, to, f[from]), from)

----------------------------------------------------------------------------
(* discover_videos *)

SUPPORTED_EXTS ==
    {"mp4", "mov", "m4v", "avi", "mkv", "wmv", "webm", "mpg", "mpeg", "3gp", "ts"}

\* str.lower on the suffixes of the model
Lower(ext) == IF ext = "MOV" THEN "mov" ELSE ext

\* Path ordering (a comparison of the paths' parts as strings).  "_sub" sorts
\* before every file name of the model ('_' < 'a'); within a directory, names
\* compare as strings: base, then '.' < '_' (fewer "_tmp" first), then the rest
\* of the name ("MOV" < "mov" < "mp4" < "txt" < "x.mov").
DirRank(d) == CASE d = "sub" -> 0 [] d = "in" -> 1 [] OTHER -> 2
BaseRank(b) == CASE b = "a" -> 0 [] b = "b" -> 1 [] OTHER -> 2
ExtRank(e) == CASE e = "MOV" -> 0 [] e = "mov" -> 1 [] e = "mp4" -> 2 [] OTHER -> 3
Key(p) == << DirRank(p[1]), BaseRank(p[2]), p[3], IF p[4] THEN 1 ELSE 0, ExtRank(p[5]) >>

RECURSIVE LexLess(_, _)
LexLess(k1, k2) ==
    IF k1 = <<>> \/ k2 = <<>> THEN k1 = <<>> /\ k2 # <<>>
    ELSE IF Head(k1) # Head(k2) THEN Head(k1) < Head(k2)
    ELSE LexLess(Tail(k1), Tail(k2))

PathLess(p, q) == LexLess(Key(p), Key(q))

\* sorted(...)
RECURSIVE Sorted(_)
Sorted(S) ==
    IF S = {} THEN <<>>
    ELSE LET m == CHOOSE p \in S : \A q \in S \ {p} : PathLess(p, q)
         IN <<m>> \o Sorted(S \ {m})

\* root.glob(pattern) filtered by is_file and the suffix
Globbed(f, rec) ==
    { p \in DOMAIN f : Dir(p) \in (IF rec THEN {"in", "sub"} ELSE {"in"}) }

discover_videos(f, rec) ==
    Sorted({ p \in Globbed(f, rec) : Lower(p[5]) \in SUPPORTED_EXTS })

----------------------------------------------------------------------------
(* build_output_path and convert_file's temporary path *)

\* (out_dir / src.stem).with_suffix(".mp4"): with_suffix replaces the last
\* dotted part of the stem when there is one ("a.x" -> "a.mp4").
build_output_path(src, out_dir) == <<out_dir, src[2], src[3], FALSE, "mp4">>

\* Mutant: the encoder writes straight to the destination.
TmpPathIsDst(dst) == dst

\* dst.parent / (dst.stem + "_tmp.mp4")
TmpPath(dst) == <<dst[1], dst[2], dst[3] + 1, FALSE, "mp4">>

Src == files[i]
Dst == build_output_path(Src, outdir)
Tmp == TmpPath(Dst)

\* Mutant: the overwrite flag is read the wrong way round.
ShouldSkipInverted(f, dst, ow) == Exists(f, dst) /\ ow

\* Mutant: the overwrite flag is ignored.
ShouldSkipIgnoresFlag(f, dst, ow) == Exists(f, dst)

\* run_batch's skip test: dst.exists() and not settings.overwrite
ShouldSkip(f, dst, ow) == Exists(f, dst) /\ ~ow

----------------------------------------------------------------------------
(* The batch converter: main, run_batch, convert_file *)

CRF_MIN == 18
CRF_MAX == 35
CrfInputs == {CRF_MIN - 1, CRF_MIN, CRF_MAX, CRF_MAX + 1}

NoFile(p) == <<"none", p>>
Content(f, p) == IF Exists(f, p) THEN f[p] ELSE NoFile(p)
Orig(p) == <<"orig", p>>
Part(src) == <<"part", src>>
Enc(src) == <<"enc", src>>

InitFs ==
    { [p \in S |-> Orig(p)] : S \in { T \in SUBSET InitPaths : Cardinality(T) <= MaxFiles } }

\* The verifier's variables while the converter runs.
VIdle ==
    /\ vpc = "idle" /\ vLeft = 0 /\ vAllOk = TRUE /\ vRet = -1
    /\ vProbe = <<>> /\ vHist = <<>>

Init ==
    /\ overwrite \in BOOLEAN
    /\ recursive \in BOOLEAN
    /\ outdir \in {"out", "in", "sub"}
    /\ fs \in InitFs
    /\ inputDirExists \in BOOLEAN
    \* a directory that holds a file exists ("sub" lies inside "in")
    /\ (\E p \in DOMAIN fs : Dir(p) \in {"in", "sub"}) => inputDirExists
    /\ pc = "parse"
    /\ files = <<>> /\ i = 0
    /\ success = 0 /\ fail = 0 /\ skip = 0
    /\ outcome = "none"
    /\ code = -1 /\ exitCode = -1
    /\ hist = [ fs0 |-> fs,                  \* the filesystem before the run
                input0 |-> inputDirExists,   \* input_dir existed before the run
                crfBad |-> FALSE,            \* parse_args rejected --crf
                noFfmpeg |-> FALSE,          \* ensure_ffmpeg raised
                postErr |-> FALSE,           \* run_post_check raised
                postStarted |-> FALSE,       \* run_post_check was called
                intAt |-> "none",            \* pc at the KeyboardInterrupt
                calls |-> 0,                 \* invocations of convert_file
                dstBefore |-> <<>>,          \* dst's content when the file's turn came
                published |-> <<>>,          \* dst -> content it was renamed to in this run
                log |-> <<>> ]               \* one record per finished iteration
    /\ VIdle

Exit(c) == pc' = "done" /\ exitCode' = c

\* parse_args: parser.error raises SystemExit(2), which main does not catch.
ParseArgs ==
    /\ pc = "parse"
    /\ \E crf \in CrfInputs :
         IF CRF_MIN <= crf /\ crf <= CRF_MAX
         THEN pc' = "ensure" /\ UNCHANGED <<exitCode, hist>>
         ELSE Exit(2) /\ hist' = [hist EXCEPT !.crfBad = TRUE]
    /\ UNCHANGED <<overwrite, recursive, outdir, fs, inputDirExists, files, i,
                   success, fail, skip, outcome, code>>
    /\ UNCHANGED verifyVars

\* ensure_ffmpeg: RuntimeError when the binary is missing, caught by main.
EnsureFfmpeg ==
    /\ pc = "ensure"
    /\ \E present \in BOOLEAN :
         IF present
         THEN pc' = "mkdir" /\ UNCHANGED <<exitCode, hist>>
         ELSE Exit(2) /\ hist' = [hist EXCEPT !.noFfmpeg = TRUE]
    /\ UNCHANGED <<overwrite, recursive, outdir, fs, inputDirExists, files, i,
                   success, fail, skip, outcome, code>>
    /\ UNCHANGED verifyVars

\* settings.output_dir.mkdir(parents=True, exist_ok=True)
Mkdir ==
    /\ pc = "mkdir"
    /\ inputDirExists' = (inputDirExists \/ outdir \in {"in", "sub"})
    /\ pc' = "discover"
    /\ UNCHANGED <<overwrite, recursive, outdir, fs, files, i,
                   success, fail, skip, outcome, code, exitCode, hist>>
    /\ UNCHANGED verifyVars

\* files = discover_videos(...); the empty list returns 1.
Discover ==
    /\ pc = "discover"
    /\ IF ~inputDirExists
       THEN Exit(2) /\ UNCHANGED <<files, i, code>>
       ELSE /\ files' = discover_videos(fs, recursive)
            /\ IF files' = <<>>
               THEN pc' = "post" /\ code' = 1 /\ UNCHANGED i
               ELSE pc' = "loop" /\ i' = 1 /\ UNCHANGED code
            /\ UNCHANGED exitCode
    /\ UNCHANGED <<overwrite, recursive, outdir, fs, inputDirExists,
                   success, fail, skip, outcome, hist>>
    /\ UNCHANGED verifyVars

LogEntry(o, f) ==
    [src |-> Src, outcome |-> o, dstBefore |-> Content(fs, Dst), dstAfter |-> Content(f, Dst)]

\* The head of the for loop: skip the file, or call convert_file.
LoopSkip ==
    /\ pc = "loop" /\ i <= Len(files)
    /\ ShouldSkip(fs, Dst, overwrite)
    /\ skip' = skip + 1
    /\ i' = i + 1
    /\ hist' = [hist EXCEPT !.log = Append(@, LogEntry("skip", fs))]
    /\ UNCHANGED <<overwrite, recursive, outdir, fs, inputDirExists, pc, files,
                   success, fail, outcome, code, exitCode>>
    /\ UNCHANGED verifyVars

LoopConvert ==
    /\ pc = "loop" /\ i <= Len(files)
    /\ ~ShouldSkip(fs, Dst, overwrite)
    /\ pc' = "open"
    /\ hist' = [hist EXCEPT !.calls = @ + 1, !.dstBefore = Content(fs, Dst)]
    /\ UNCHANGED <<overwrite, recursive, outdir, fs, inputDirExists, files, i,
                   success, fail, skip, outcome, code, exitCode>>
    /\ UNCHANGED verifyVars

Return(o) == pc' = "tally" /\ outcome' = o

\* clip = VideoFileClip(str(src)); a missing source cannot be opened.
Open ==
    /\ pc = "open"
    /\ \/ Exists(fs, Src) /\ pc' = "encode" /\ UNCHANGED outcome
       \/ Return("open-failed")
    /\ UNCHANGED <<overwrite, recursive, outdir, fs, inputDirExists, files, i,
                   success, fail, skip, code, exitCode, hist>>
    /\ UNCHANGED verifyVars

\* clip.write_videofile(str(tmp), ...) starts: the encoder fails before it
\* creates tmp, or creates (truncates) tmp and writes.
EncodeStart ==
    /\ pc = "encode"
    /\ \/ Return("convert-failed") /\ UNCHANGED fs
       \/ pc' = "writing" /\ fs' = Write(fs, Tmp, Part(Src)) /\ UNCHANGED outcome
    /\ UNCHANGED <<overwrite, recursive, outdir, inputDirExists, files, i,
                   success, fail, skip, code, exitCode, hist>>
    /\ UNCHANGED verifyVars

\* write_videofile ends: tmp is complete, or the encoder failed and tmp is
\* left as it is (nothing removes it).
EncodeEnd ==
    /\ pc = "writing"
    /\ \/ pc' = "unlink" /\ fs' = Write(fs, Tmp, Enc(Src)) /\ UNCHANGED outcome
       \/ Return("convert-failed") /\ UNCHANGED fs
    /\ UNCHANGED <<overwrite, recursive, outdir, inputDirExists, files, i,
                   success, fail, skip, code, exitCode, hist>>
    /\ UNCHANGED verifyVars

\* if dst.exists(): dst.unlink()
FinalizeUnlink ==
    /\ pc = "unlink"
    /\ IF Exists(fs, Dst)
       THEN \/ pc' = "rename" /\ fs' = Unlink(fs, Dst) /\ UNCHANGED outcome
            \/ Return("finalize-failed") /\ UNCHANGED fs
       ELSE pc' = "rename" /\ UNCHANGED <<fs, outcome>>
    /\ UNCHANGED <<overwrite, recursive, outdir, inputDirExists, files, i,
                   success, fail, skip, code, exitCode, hist>>
    /\ UNCHANGED verifyVars

\* tmp.rename(dst)
FinalizeRename ==
    /\ pc = "rename"
    /\ \/ /\ Exists(fs, Tmp)
          /\ fs' = Rename(fs, Tmp, Dst)
          /\ Return("ok")
          /\ hist' = [hist EXCEPT !.published =
                         [p \in (DOMAIN @) \cup {Dst} |-> IF p = Dst THEN fs[Tmp] ELSE @[p]]]
       \/ Return("finalize-failed") /\ UNCHANGED <<fs, hist>>
    /\ UNCHANGED <<overwrite, recursive, outdir, inputDirExists, files, i,
                   success, fail, skip, code, exitCode>>
    /\ UNCHANGED verifyVars

\* Mutant: a failed file ends the loop.
TallyBreakOnFail ==
    /\ pc = "tally"
    /\ IF outcome = "ok"
       THEN success' = success + 1 /\ i' = i + 1 /\ UNCHANGED fail
       ELSE fail' = fail + 1 /\ i' = Len(files) + 1 /\ UNCHANGED success
    /\ hist' = [hist EXCEPT !.log = Append(@,
                   [src |-> Src, outcome |-> outcome,
                    dstBefore |-> hist.dstBefore, dstAfter |-> Content(fs, Dst)])]
    /\ pc' = "loop"
    /\ outcome' = "none"
    /\ UNCHANGED <<overwrite, recursive, outdir, fs, inputDirExists, files,
                   skip, code, exitCode>>
    /\ UNCHANGED verifyVars

\* if ok: success += 1 else: fail += 1; the loop goes on to the next file
Tally ==
    /\ pc = "tally"
    /\ IF outcome = "ok"
       THEN success' = success + 1 /\ UNCHANGED fail
       ELSE fail' = fail + 1 /\ UNCHANGED success
    /\ hist' = [hist EXCEPT !.log = Append(@,
                   [src |-> Src, outcome |-> outcome,
                    dstBefore |-> hist.dstBefore, dstAfter |-> Content(fs, Dst)])]
    /\ i' = i + 1
    /\ pc' = "loop"
    /\ outcome' = "none"
    /\ UNCHANGED <<overwrite, recursive, outdir, fs, inputDirExists, files,
                   skip, code, exitCode>>
    /\ UNCHANGED verifyVars

\* print("Done. ..."); return 0 if fail == 0 else 1
BatchReturn(nfail) == IF nfail = 0 THEN 0 ELSE 1

Summary ==
    /\ pc = "loop" /\ i > Len(files)
    /\ code' = BatchReturn(fail)
    /\ pc' = "post"
    /\ UNCHANGED <<overwrite, recursive, outdir, fs, inputDirExists, files, i,
                   success, fail, skip, outcome, exitCode, hist>>
    /\ UNCHANGED verifyVars

\* run_post_check(); return code.  subprocess.run raises when "python" cannot
\* be started; the check's return code is only printed.
PostCheck ==
    /\ pc = "post"
    /\ \E r \in {"compatible", "incompatible", "not-started"} :
         IF r = "not-started"
         THEN Exit(2) /\ hist' = [hist EXCEPT !.postErr = TRUE, !.postStarted = TRUE]
         ELSE Exit(code) /\ hist' = [hist EXCEPT !.postStarted = TRUE]
    /\ UNCHANGED <<overwrite, recursive, outdir, fs, inputDirExists, files, i,
                   success, fail, skip, outcome, code>>
    /\ UNCHANGED verifyVars

\* KeyboardInterrupt: not an Exception, so only main's handler catches it.
Interrupt ==
    /\ pc # "done"
    /\ Exit(130)
    /\ hist' = [hist EXCEPT !.intAt = pc]
    /\ UNCHANGED <<overwrite, recursive, outdir, fs, inputDirExists, files, i,
                   success, fail, skip, outcome, code>>
    /\ UNCHANGED verifyVars

Next ==
    \/ ParseArgs \/ EnsureFfmpeg \/ Mkdir \/ Discover
    \/ LoopSkip \/ LoopConvert \/ Open \/ EncodeStart \/ EncodeEnd
    \/ FinalizeUnlink \/ FinalizeRename \/ Tally \/ Summary \/ PostCheck
    \/ Interrupt

Spec == Init /\ [][Next]_vars

----------------------------------------------------------------------------
(* The compliance verifier: tests/test_powerpoint_compatibility.py *)

VKeys == {"codec_name", "profile", "level", "pix_fmt"}
AKeys == {"codec_name", "profile"}

\* What ffprobe may report for a key of the video stream / the audio stream.
VVals(k) ==
    CASE k = "codec_name" -> {"h264", "hevc"}
      [] k = "profile" -> {"High", "Main", "high"}
      [] k = "level" -> {"41", "42", "40", "4.1"}
      [] OTHER -> {"yuv420p", "yuv444p"}
AVals(k) ==
    CASE k = "codec_name" -> {"aac", "mp3"}
      [] OTHER -> {"LC", "lc", "HE-AAC"}

\* The dicts probe() may return: any subset of the keys, each with a value.
VDicts ==
    { d \in UNION { [K -> UNION { VVals(k) : k \in VKeys }] : K \in SUBSET VKeys } :
        \A k \in DOMAIN d : d[k] \in VVals(k) }
ADicts ==
    { d \in UNION { [K -> UNION { AVals(k) : k \in AKeys }] : K \in SUBSET AKeys } :
        \A k \in DOMAIN d : d[k] \in AVals(k) }

\* One call of probe(): subprocess.run raises, or the parsed dict is returned.
Raised == [exc |-> TRUE, d |-> <<>>]
Returned(d) == [exc |-> FALSE, d |-> d]
VProbes == {Raised} \cup { Returned(d) : d \in VDicts }
AProbes == {Raised} \cup { Returned(d) : d \in ADicts }

\* dict.get(key, default); None is the string "<None>"
Get(d, k, default) == IF k \in DOMAIN d THEN d[k] ELSE default

\* str.upper on the strings of the model
Upper(str) == CASE str = "lc" -> "LC" [] str = "high" -> "HIGH" [] OTHER -> str

\* Mutant: the audio profile is compared without upper-casing it.
check_file_no_upper(v, a) ==
    /\ Get(v, "codec_name", "<None>") = "h264"
    /\ Get(v, "profile", "<None>") = "High"
    /\ Get(v, "level", "<None>") \in {"41", "42"}
    /\ Get(v, "pix_fmt", "<None>") = "yuv420p"
    /\ Get(a, "codec_name", "<None>") = "aac"
    /\ Get(a, "profile", "") = "LC"

\* check_file's return expression over the two dicts v and a
check_file(v, a) ==
    /\ Get(v, "codec_name", "<None>") = "h264"
    /\ Get(v, "profile", "<None>") = "High"
    /\ Get(v, "level", "<None>") \in {"41", "42"}
    /\ Get(v, "pix_fmt", "<None>") = "yuv420p"
    /\ Get(a, "codec_name", "<None>") = "aac"
    /\ Upper(Get(a, "profile", "")) = "LC"

\* The batch converter's variables while the verifier runs.
BatchIdle ==
    /\ overwrite = FALSE /\ recursive = FALSE /\ outdir = "out"
    /\ fs = <<>> /\ inputDirExists = TRUE /\ pc = "done"
    /\ files = <<>> /\ i = 0 /\ success = 0 /\ fail = 0 /\ skip = 0
    /\ outcome = "none" /\ code = -1 /\ exitCode = -1
    /\ hist = <<>>

\* files = list(OUTPUT_DIR.glob("*.mp4"))
VInit ==
    /\ BatchIdle
    /\ vpc = "start"
    /\ vLeft \in 0..MaxScan
    /\ vAllOk = TRUE
    /\ vRet = -1
    /\ vProbe = <<>>
    /\ vHist = [found |-> vLeft,      \* the number of files found
                scanned |-> 0,        \* the number of files checked
                good |-> TRUE,        \* every file checked so far met the six conditions
                lastGood |-> FALSE]   \* the last file checked met them

\* if not files: return 1
VStart ==
    /\ vpc = "start"
    /\ IF vLeft = 0
       THEN vpc' = "done" /\ vRet' = 1
       ELSE vpc' = "scan" /\ UNCHANGED vRet
    /\ UNCHANGED <<vLeft, vAllOk, vProbe, vHist>>
    /\ UNCHANGED batchVars

\* The six conditions, read off the attributes the prober reported.
Compliant(v, a) ==
    /\ VKeys \subseteq DOMAIN v
    /\ AKeys \subseteq DOMAIN a
    /\ v["codec_name"] = "h264"
    /\ v["profile"] = "High"
    /\ v["level"] = "41" \/ v["level"] = "42"
    /\ v["pix_fmt"] = "yuv420p"
    /\ a["codec_name"] = "aac"
    /\ a["profile"] \in {"LC", "lc"}

\* main's loop body once check_file has returned res for a file that is
\* compliant or not (good)
Checked(res, good) ==
    /\ vAllOk' = (vAllOk /\ res)
    /\ vHist' = [vHist EXCEPT !.scanned = @ + 1, !.good = (@ /\ good), !.lastGood = good]
    /\ vLeft' = vLeft - 1
    /\ vProbe' = <<>>
    /\ vpc' = "scan"
    /\ UNCHANGED vRet

\* check_file: v = probe(file, "v:0", ...); an exception returns False
VProbeVideo ==
    /\ vpc = "scan" /\ vLeft > 0
    /\ \E r \in VProbes :
         IF r.exc
         THEN Checked(FALSE, FALSE)
         ELSE vpc' = "audio" /\ vProbe' = r.d /\ UNCHANGED <<vLeft, vAllOk, vRet, vHist>>
    /\ UNCHANGED batchVars

\* check_file: a = probe(file, "a:0", ...); return (...)
VProbeAudio ==
    /\ vpc = "audio"
    /\ \E r \in AProbes :
         IF r.exc
         THEN Checked(FALSE, FALSE)
         ELSE Checked(check_file(vProbe, r.d), Compliant(vProbe, r.d))
    /\ UNCHANGED batchVars

\* return 0 if all_ok else 1
VReturn ==
    /\ vpc = "scan" /\ vLeft = 0
    /\ vRet' = (IF vAllOk THEN 0 ELSE 1)
    /\ vpc' = "done"
    /\ UNCHANGED <<vLeft, vAllOk, vProbe, vHist>>
    /\ UNCHANGED batchVars

VNext == VStart \/ VProbeVideo \/ VProbeAudio \/ VReturn

SpecVerify == VInit /\ [][VNext]_vars

----------------------------------------------------------------------------
(* The claims *)

Log == hist.log
Entries == 1..Len(Log)
CountOf(S) == Cardinality({ k \in Entries : Log[k].outcome \in S })
Failures == {"open-failed", "convert-failed", "finalize-failed"}
IsFile(c) == c[1] # "none"

\* The destination paths of the discovered files.
DestPaths == { build_output_path(files[k], outdir) : k \in 1..Len(files) }

\* The pcs at which file i is being processed.
InFile == {"open", "encode", "writing", "unlink", "rename", "tally"}

\* C1: with overwrite not set, no step of the run removes, replaces or
\* rewrites a file that exists at the destination path of a discovered file.
C1_NoOverwriteWithoutFlag ==
    [][ ~overwrite =>
          \A p \in DestPaths : Exists(fs, p) => Exists(fs', p) /\ fs'[p] = fs[p] ]_vars

\* C2: whenever convert_file has returned, on any of its four outcomes, the
\* temporary file it wrote does not exist any more.
C2_NoTmpAfterReturn ==
    pc = "tally" => ~(Exists(fs, Tmp) /\ fs[Tmp] \in {Part(Src), Enc(Src)})

\* C3: when convert_file returns convert-failed, the file's destination path is
\* as it was when convert_file was called: not created, not removed, not changed.
C3_ConvertFailedKeepsDst ==
    (pc = "tally" /\ outcome = "convert-failed") => Content(fs, Dst) = hist.dstBefore

\* C3's case: the encoder failed after it had started to write, with overwrite
\* set and a destination file present.
C3_Witness ==
    /\ pc = "tally" /\ outcome = "convert-failed"
    /\ overwrite /\ Exists(fs, Dst) /\ Exists(fs, Tmp) /\ fs[Tmp] = Part(Src)

\* C4: at the turn of a file whose destination exists, with overwrite not set,
\* the iteration (when no interrupt ends it) skips the file: convert_file is
\* not called, skip grows by one, success, fail and the filesystem are
\* unchanged, and the loop moves to the next file.
C4_SkipExisting ==
    [][ ( /\ pc = "loop" /\ i <= Len(files)
          /\ Exists(fs, Dst) /\ ~overwrite
          /\ pc' # "done" )
        => ( /\ skip' = skip + 1 /\ success' = success /\ fail' = fail
             /\ fs' = fs /\ hist'.calls = hist.calls
             /\ i' = i + 1 /\ pc' = "loop" ) ]_vars

\* C4's case: a file was skipped because its destination existed.
C4_Witness ==
    /\ ~overwrite /\ skip >= 1
    /\ \E k \in Entries : Log[k].outcome = "skip" /\ IsFile(Log[k].dstBefore)

\* C5 as claimed: for every file whose destination exists at its turn, with
\* overwrite set, convert_file is called and after the iteration the old
\* content is no longer at the destination.
C5_OldContentGone ==
    \A k \in Entries :
        (overwrite /\ IsFile(Log[k].dstBefore)) =>
            Log[k].outcome # "skip" /\ Log[k].dstAfter # Log[k].dstBefore

\* C5 as amended: for every file whose destination exists at its turn, with
\* overwrite set, convert_file is called, and when it returns ok the
\* destination holds the new encoding of the file and no longer the old content.
C5_ReplacedOnSuccess ==
    \A k \in Entries :
        (overwrite /\ IsFile(Log[k].dstBefore)) =>
            /\ Log[k].outcome # "skip"
            /\ Log[k].outcome = "ok" =>
                 Log[k].dstAfter = Enc(Log[k].src) /\ Log[k].dstAfter # Log[k].dstBefore

\* C5's case: an existing destination was replaced by a successful conversion.
C5_Witness ==
    /\ overwrite
    /\ \E k \in Entries :
         /\ IsFile(Log[k].dstBefore) /\ Log[k].outcome = "ok"
         /\ Log[k].dstAfter = Enc(Log[k].src)

\* The exit code the claim C6 gives a finished run.
ExpectedExit ==
    IF hist.intAt # "none" THEN 130
    ELSE IF hist.crfBad \/ hist.noFfmpeg \/ ~hist.input0 \/ hist.postErr THEN 2
    ELSE IF files = <<>> \/ CountOf(Failures) > 0 THEN 1
    ELSE 0

\* C6: the exit code is 130 on an interrupt, 2 on a fatal or unexpected error
\* (invalid crf, missing ffmpeg, missing input directory), 1 when a conversion
\* failed or no input file was found, and 0 otherwise; the compatibility
\* check's result does not change it.
C6_ExitCode == pc = "done" => exitCode = ExpectedExit

\* C7: when the summary is printed, every discovered file has been processed
\* exactly once, in the sorted order of discovery, each with one outcome, and
\* the three counters count those outcomes and sum to the number of files.
C7_BatchCompletes ==
    (pc = "post" /\ files # <<>>) =>
        /\ Len(Log) = Len(files)
        /\ \A k \in Entries : Log[k].src = files[k]
        /\ \A k \in Entries : Log[k].outcome \in {"ok", "skip"} \cup Failures
        /\ \A k, l \in 1..Len(files) : k < l => PathLess(files[k], files[l])
        /\ success = CountOf({"ok"})
        /\ skip = CountOf({"skip"})
        /\ fail = CountOf(Failures)
        /\ success + skip + fail = Len(files)

\* C7's case: the first file failed in the encoder and the second was still
\* converted.
C7_Witness ==
    /\ pc = "post" /\ Len(files) >= 2 /\ Len(Log) = Len(files)
    /\ Log[1].outcome = "convert-failed" /\ Log[2].outcome = "ok"
    /\ fail = 1 /\ success >= 1

\* C8: after run_batch, every discovered file still exists with the content
\* it had before the run.
C8_SourcesUntouched ==
    pc = "post" => \A k \in 1..Len(files) : Content(fs, files[k]) = Orig(files[k])

\* C10: after an interrupt that arrived while file i was processed, no later
\* file was attempted, the compatibility check was not started, the exit code
\* is 130, and every destination published by a rename earlier in the run
\* still exists with the content it was published with.
C10_Interrupt ==
    (pc = "done" /\ hist.intAt \in InFile) =>
        /\ exitCode = 130
        /\ ~hist.postStarted
        /\ Len(Log) = i - 1 /\ hist.calls <= i
        /\ \A p \in DOMAIN hist.published : Content(fs, p) = hist.published[p]

====
